---- MODULE Spec2Model ----
(***************************************************************************)
(* Model of src-tauri/src/secure_storage.rs: the six Tauri commands that   *)
(* save, load and clear the two secret records (SecureApiConfig,           *)
(* SecureSttConfig) in the OS credential store through the keyring crate.  *)
(*                                                                         *)
(* The OS store is a map from (service, account) addresses to at most one  *)
(* password string.  A password string is modelled by its JSON syntax      *)
(* tree: an object is the ordered list of its members, so that             *)
(* serde_json::to_string and serde_json::from_str are two different        *)
(* computations and a round trip is something to be checked.               *)
(***************************************************************************)
EXTENDS Integers, Sequences, FiniteSets, Bags, TLC

VARIABLES
  store,      \* OS credential store: address -> <<>> (no entry) or <<doc>>
  lastOp,     \* the last command invocation: environment, store calls, result
  lastMut,    \* history: per slot, the last SUCCESSFUL save or clear
  sinceSave,  \* history: per slot, <<R>> while a successful save of R has
              \* been followed by no other save or clear attempt on the slot
  inflight    \* the invocations that have started and not yet returned,
              \* when callers race: a bag of invocation records

vars == <<store, lastOp, lastMut, sinceSave, inflight>>

----------------------------------------------------------------------------
(* Bounds *)

\* number of distinct API keys callers save
NumKeys == 1

\* number of invocations that race at a time
MaxInflight == 2

----------------------------------------------------------------------------
(* Constants of the source *)

SERVICE_NAME == "IntelliNoteSecureConfig"
ACCOUNT_NAME == "api_config"
STT_ACCOUNT_NAME == "stt_config"

----------------------------------------------------------------------------
(* Rust values *)

\* Option<T>: None is the empty sequence, Some(x) the one-element sequence
None == <<>>
Some(x) == <<x>>

\* the values callers pass in the required fields
Providers == {"openai", "gemini"}
ApiKeys == {"sk-" \o ToString(i) : i \in 1..NumKeys}

\* the values callers pass in the optional fields; Some("") is not None
BaseUrls == {None, Some(""), Some("https://h")}
Languages == {None, Some("en")}
Models == {None, Some("")}

SecureApiConfig ==
  [provider : Providers, api_key : ApiKeys, base_url : BaseUrls]

SecureSttConfig ==
  [provider : Providers, api_key : ApiKeys,
   language : Languages, model : Models]

\* Result<_, String>
Ok(v) == [tag |-> "Ok", val |-> v, msg |-> ""]
Err(m) == [tag |-> "Err", val |-> <<>>, msg |-> m]

----------------------------------------------------------------------------
(* JSON text, as its syntax tree *)

JStr(s) == [t |-> "str", s |-> s]
JNull == [t |-> "null", s |-> ""]
JNum == [t |-> "num", s |-> "1"]

Member(k, v) == [k |-> k, v |-> v]

\* {"k1":v1,...}: members in textual order, duplicates and all
JObj(m) == [t |-> "obj", m |-> m]
\* [v1,...]: the elements, carried as members with an empty key
JArr(a) == [t |-> "arr", m |-> [i \in 1..Len(a) |-> Member("", a[i])]]
\* text that is not JSON at all
JBad == [t |-> "bad", m |-> <<>>]
\* a JSON text that is a bare scalar (a number, a string, null)
JScalar == [t |-> "scalar", m |-> <<>>]

----------------------------------------------------------------------------
(* serde: #[derive(Serialize)] with skip_serializing_if = "Option::is_none" *)

\* an absent field written as a null marker
SerField_NullMarker(name, opt) ==
  IF opt = None THEN <<Member(name, JNull)>>
  ELSE <<Member(name, JStr(opt[1]))>>

\* one struct field: the member is written unless the field is an Option
\* that is None; a present field is written as a JSON string
SerField(name, opt) ==
  IF opt = None THEN <<>> ELSE <<Member(name, JStr(opt[1]))>>

\* serde_json::to_string(&SecureApiConfig): fields in declaration order
to_string_api(config) ==
  JObj(SerField("provider", Some(config.provider))
       \o SerField("api_key", Some(config.api_key))
       \o SerField("base_url", config.base_url))

\* serde_json::to_string(&SecureSttConfig): fields in declaration order
to_string_stt(config) ==
  JObj(SerField("provider", Some(config.provider))
       \o SerField("api_key", Some(config.api_key))
       \o SerField("language", config.language)
       \o SerField("model", config.model))

----------------------------------------------------------------------------
(* serde: #[derive(Deserialize)] *)

\* the fields of each struct, in declaration order, with their Rust type
ApiFields ==
  << [name |-> "provider", optional |-> FALSE],
     [name |-> "api_key", optional |-> FALSE],
     [name |-> "base_url", optional |-> TRUE] >>

SttFields ==
  << [name |-> "provider", optional |-> FALSE],
     [name |-> "api_key", optional |-> FALSE],
     [name |-> "language", optional |-> TRUE],
     [name |-> "model", optional |-> TRUE] >>

FieldNames(fields) == {fields[i].name : i \in 1..Len(fields)}

FieldOf(fields, name) ==
  fields[CHOOSE i \in 1..Len(fields) : fields[i].name = name]

\* an empty string read back as an absent field
DeField_EmptyAsNone(field, v) ==
  IF v.t = "str" THEN (IF v.s = "" /\ field.optional THEN Ok(None)
                       ELSE Ok(Some(v.s)))
  ELSE IF v.t = "null" /\ field.optional THEN Ok(None)
  ELSE Err("invalid type")

\* String::deserialize / Option<String>::deserialize of one JSON value:
\* Ok(the field's value as an Option) or Err
DeField(field, v) ==
  IF v.t = "str" THEN Ok(Some(v.s))
  ELSE IF v.t = "null" /\ field.optional THEN Ok(None)
  ELSE Err("invalid type")

\* the derived visit_map: members are visited in textual order; a known key
\* seen twice is an error, an unknown key is skipped, a value of the wrong
\* type is an error.  acc maps each field to <<>> (not seen) or <<value>>.
RECURSIVE VisitMap(_, _, _, _)
VisitMap(fields, m, i, acc) ==
  IF i > Len(m) THEN Ok(acc)
  ELSE IF m[i].k \notin FieldNames(fields)
    THEN VisitMap(fields, m, i + 1, acc)
  ELSE IF acc[m[i].k] # <<>> THEN Err("duplicate field")
  ELSE LET r == DeField(FieldOf(fields, m[i].k), m[i].v)
       IN IF r.tag = "Err" THEN r
          ELSE VisitMap(fields, m, i + 1,
                        [acc EXCEPT ![m[i].k] = <<r.val>>])

\* after the members: a required field not seen is an error, an Option
\* field not seen is None
Finish(fields, acc) ==
  IF \E i \in 1..Len(fields) :
       ~fields[i].optional /\ acc[fields[i].name] = <<>>
  THEN Err("missing field")
  ELSE Ok([n \in FieldNames(fields) |->
             IF acc[n] = <<>> THEN None ELSE acc[n][1]])

\* the derived visit_seq: element i is field i; too few elements is an
\* error for every field, Option or not; serde_json rejects elements left
\* over after the last field
RECURSIVE VisitSeq(_, _, _, _)
VisitSeq(fields, m, i, acc) ==
  IF i > Len(fields)
    THEN IF Len(m) > Len(fields) THEN Err("trailing characters") ELSE Ok(acc)
  ELSE IF i > Len(m) THEN Err("invalid length")
  ELSE LET r == DeField(fields[i], m[i].v)
       IN IF r.tag = "Err" THEN r
          ELSE VisitSeq(fields, m, i + 1,
                        [acc EXCEPT ![fields[i].name] = <<r.val>>])

\* serde_json's deserialize_struct: an object goes to visit_map, an array
\* to visit_seq, anything else is an error.  Ok(f) with f: field -> Option.
DeStruct(fields, raw) ==
  LET empty == [n \in FieldNames(fields) |-> <<>>]
      r == IF raw.t = "obj" THEN VisitMap(fields, raw.m, 1, empty)
           ELSE IF raw.t = "arr" THEN VisitSeq(fields, raw.m, 1, empty)
           ELSE IF raw.t = "bad" THEN Err("syntax error")
           ELSE Err("invalid type")
  IN IF r.tag = "Err" THEN r ELSE Finish(fields, r.val)

\* serde_json::from_str::<SecureApiConfig>(&raw)
from_str_api(raw) ==
  LET r == DeStruct(ApiFields, raw)
  IN IF r.tag = "Err" THEN r
     ELSE Ok([provider |-> r.val["provider"][1],
              api_key |-> r.val["api_key"][1],
              base_url |-> r.val["base_url"]])

\* serde_json::from_str::<SecureSttConfig>(&raw)
from_str_stt(raw) ==
  LET r == DeStruct(SttFields, raw)
  IN IF r.tag = "Err" THEN r
     ELSE Ok([provider |-> r.val["provider"][1],
              api_key |-> r.val["api_key"][1],
              language |-> r.val["language"],
              model |-> r.val["model"]])

----------------------------------------------------------------------------
(* The OS credential store, as the keyring crate presents it *)

\* outcomes of Entry::new: the entry, or a keyring::Error
EntryFaults == {"ok", "PlatformFailure"}
\* outcomes of a store call other than what the stored content decides
StoreFaults == {"ok", "NoStorageAccess"}

\* Entry::new(service, account): the address of one credential
Entry_new(service, account, fault) ==
  IF fault = "ok" THEN Ok([service |-> service, account |-> account])
  ELSE Err(fault)

\* fn keyring_entry()
keyring_entry(fault) == Entry_new(SERVICE_NAME, ACCOUNT_NAME, fault)

\* the slip of addressing both slots by the same account
stt_keyring_entry_SameAccount(fault) ==
  Entry_new(SERVICE_NAME, ACCOUNT_NAME, fault)

\* fn stt_keyring_entry()
stt_keyring_entry(fault) == Entry_new(SERVICE_NAME, STT_ACCOUNT_NAME, fault)

Addresses ==
  {[service |-> SERVICE_NAME, account |-> a] :
     a \in {ACCOUNT_NAME, STT_ACCOUNT_NAME}}

Addr(account) == [service |-> SERVICE_NAME, account |-> account]

\* one store call as the command saw it
Call(name, outcome) == [call |-> name, outcome |-> outcome]

\* entry.set_password(&serialized): replaces whatever the address held; a
\* rejected write leaves the store as it was
set_password(st, entry, serialized, fault) ==
  IF fault = "ok"
  THEN [result |-> Ok(<<>>),
        store |-> [st EXCEPT ![entry] = <<serialized>>],
        calls |-> <<Call("set_password", "ok")>>]
  ELSE [result |-> Err(fault), store |-> st,
        calls |-> <<Call("set_password", fault)>>]

\* entry.get_password(): the stored string, Error::NoEntry, or another error
get_password(st, entry, fault) ==
  IF fault # "ok"
  THEN [result |-> Err(fault), calls |-> <<Call("get_password", fault)>>]
  ELSE IF st[entry] = <<>>
  THEN [result |-> Err("NoEntry"),
        calls |-> <<Call("get_password", "NoEntry")>>]
  ELSE [result |-> Ok(st[entry][1]),
        calls |-> <<Call("get_password", "ok")>>]

\* entry.delete_password(): removes the credential, Error::NoEntry when
\* there is none, or another error
delete_password(st, entry, fault) ==
  IF fault # "ok"
  THEN [result |-> Err(fault), store |-> st,
        calls |-> <<Call("delete_password", fault)>>]
  ELSE IF st[entry] = <<>>
  THEN [result |-> Err("NoEntry"), store |-> st,
        calls |-> <<Call("delete_password", "NoEntry")>>]
  ELSE [result |-> Ok(<<>>), store |-> [st EXCEPT ![entry] = <<>>],
        calls |-> <<Call("delete_password", "ok")>>]

\* the environments of one invocation: Entry::new fails and no store call
\* is made, or it succeeds and the store call meets fault sf
Envs ==
  {[ef |-> "ok", sf |-> sf] : sf \in StoreFaults}
  \cup {[ef |-> ef, sf |-> "ok"] : ef \in EntryFaults \ {"ok"}}

\* what a command hands back: its result, the store after it, the store
\* calls it issued
Outcome(result, st, calls) ==
  [result |-> result, store |-> st, calls |-> calls]

----------------------------------------------------------------------------
(* The commands.  ef is the outcome of Entry::new, sf the fault (if any) of *)
(* the one store call; e.to_string() keeps the error's name as the message. *)

\* a save that fills an absent base_url from the record already stored
secure_save_api_config_Merge(st, config, ef, sf) ==
  LET entry == keyring_entry(ef)
  IN IF entry.tag = "Err" THEN Outcome(Err(entry.msg), st, <<>>)
     ELSE LET old == IF st[entry.val] = <<>> THEN Err("NoEntry")
                     ELSE from_str_api(st[entry.val][1])
              merged == IF old.tag = "Ok" /\ config.base_url = None
                        THEN [config EXCEPT !.base_url = old.val.base_url]
                        ELSE config
              w == set_password(st, entry.val, to_string_api(merged), sf)
          IN Outcome(w.result, w.store, w.calls)

\* a save that tries the write again when the store rejects it
secure_save_api_config_Retry(st, config, ef, sf) ==
  LET entry == keyring_entry(ef)
  IN IF entry.tag = "Err" THEN Outcome(Err(entry.msg), st, <<>>)
     ELSE LET serialized == to_string_api(config)
              w == set_password(st, entry.val, serialized, sf)
          IN IF w.result.tag = "Ok" THEN Outcome(w.result, w.store, w.calls)
             ELSE LET w2 == set_password(w.store, entry.val, serialized, sf)
                  IN Outcome(w2.result, w2.store, w.calls \o w2.calls)

\* a save that deletes the old entry before it writes the new one
secure_save_api_config_DeleteFirst(st, config, ef, sf) ==
  LET entry == keyring_entry(ef)
  IN IF entry.tag = "Err" THEN Outcome(Err(entry.msg), st, <<>>)
     ELSE LET serialized == to_string_api(config)
              d == delete_password(st, entry.val, "ok")
              w == set_password(d.store, entry.val, serialized, sf)
          IN Outcome(w.result, w.store, w.calls)

\* pub fn secure_save_api_config(config: SecureApiConfig); to_string of a
\* struct of strings has no failing case
secure_save_api_config(st, config, ef, sf) ==
  LET entry == keyring_entry(ef)
  IN IF entry.tag = "Err" THEN Outcome(Err(entry.msg), st, <<>>)
     ELSE LET serialized == to_string_api(config)
              w == set_password(st, entry.val, serialized, sf)
          IN Outcome(w.result, w.store, w.calls)

\* a load that reports an empty slot as an error
secure_load_api_config_NoEntryErr(st, ef, sf) ==
  LET entry == keyring_entry(ef)
  IN IF entry.tag = "Err" THEN Outcome(Err(entry.msg), st, <<>>)
     ELSE LET g == get_password(st, entry.val, sf)
          IN IF g.result.tag = "Ok"
             THEN LET parsed == from_str_api(g.result.val)
                  IN IF parsed.tag = "Err"
                     THEN Outcome(Err(parsed.msg), st, g.calls)
                     ELSE Outcome(Ok(Some(parsed.val)), st, g.calls)
             ELSE Outcome(Err(g.result.msg), st, g.calls)

\* a load that masks unparseable content as an empty slot
secure_load_api_config_MaskCorrupt(st, ef, sf) ==
  LET entry == keyring_entry(ef)
  IN IF entry.tag = "Err" THEN Outcome(Err(entry.msg), st, <<>>)
     ELSE LET g == get_password(st, entry.val, sf)
          IN IF g.result.tag = "Ok"
             THEN LET parsed == from_str_api(g.result.val)
                  IN IF parsed.tag = "Err"
                     THEN Outcome(Ok(None), st, g.calls)
                     ELSE Outcome(Ok(Some(parsed.val)), st, g.calls)
             ELSE IF g.result.msg = "NoEntry"
             THEN Outcome(Ok(None), st, g.calls)
             ELSE Outcome(Err(g.result.msg), st, g.calls)

\* a load that removes an entry it cannot parse
secure_load_api_config_PurgeCorrupt(st, ef, sf) ==
  LET entry == keyring_entry(ef)
  IN IF entry.tag = "Err" THEN Outcome(Err(entry.msg), st, <<>>)
     ELSE LET g == get_password(st, entry.val, sf)
          IN IF g.result.tag = "Ok"
             THEN LET parsed == from_str_api(g.result.val)
                  IN IF parsed.tag = "Err"
                     THEN Outcome(Err(parsed.msg),
                                  delete_password(st, entry.val, "ok").store,
                                  g.calls)
                     ELSE Outcome(Ok(Some(parsed.val)), st, g.calls)
             ELSE IF g.result.msg = "NoEntry"
             THEN Outcome(Ok(None), st, g.calls)
             ELSE Outcome(Err(g.result.msg), st, g.calls)

\* pub fn secure_load_api_config()
secure_load_api_config(st, ef, sf) ==
  LET entry == keyring_entry(ef)
  IN IF entry.tag = "Err" THEN Outcome(Err(entry.msg), st, <<>>)
     ELSE LET g == get_password(st, entry.val, sf)
          IN IF g.result.tag = "Ok"
             THEN LET parsed == from_str_api(g.result.val)
                  IN IF parsed.tag = "Err"
                     THEN Outcome(Err(parsed.msg), st, g.calls)
                     ELSE Outcome(Ok(Some(parsed.val)), st, g.calls)
             ELSE IF g.result.msg = "NoEntry"
             THEN Outcome(Ok(None), st, g.calls)
             ELSE Outcome(Err(g.result.msg), st, g.calls)

\* a clear that reports an empty slot as an error
secure_clear_api_config_NoEntryErr(st, ef, sf) ==
  LET entry == keyring_entry(ef)
  IN IF entry.tag = "Err" THEN Outcome(Err(entry.msg), st, <<>>)
     ELSE LET d == delete_password(st, entry.val, sf)
          IN IF d.result.tag = "Ok"
             THEN Outcome(Ok(<<>>), d.store, d.calls)
             ELSE Outcome(Err(d.result.msg), d.store, d.calls)

\* a clear that blanks the entry instead of deleting it
secure_clear_api_config_Blank(st, ef, sf) ==
  LET entry == keyring_entry(ef)
  IN IF entry.tag = "Err" THEN Outcome(Err(entry.msg), st, <<>>)
     ELSE LET w == set_password(st, entry.val, JBad, sf)
          IN Outcome(w.result, w.store, w.calls)

\* pub fn secure_clear_api_config()
secure_clear_api_config(st, ef, sf) ==
  LET entry == keyring_entry(ef)
  IN IF entry.tag = "Err" THEN Outcome(Err(entry.msg), st, <<>>)
     ELSE LET d == delete_password(st, entry.val, sf)
          IN IF d.result.tag = "Ok" \/ d.result.msg = "NoEntry"
             THEN Outcome(Ok(<<>>), d.store, d.calls)
             ELSE Outcome(Err(d.result.msg), d.store, d.calls)

\* a save of the STT record copied from the API one with its entry left in
secure_save_stt_config_WrongEntry(st, config, ef, sf) ==
  LET entry == keyring_entry(ef)
  IN IF entry.tag = "Err" THEN Outcome(Err(entry.msg), st, <<>>)
     ELSE LET serialized == to_string_stt(config)
              w == set_password(st, entry.val, serialized, sf)
          IN Outcome(w.result, w.store, w.calls)

\* pub fn secure_save_stt_config(config: SecureSttConfig)
secure_save_stt_config(st, config, ef, sf) ==
  LET entry == stt_keyring_entry(ef)
  IN IF entry.tag = "Err" THEN Outcome(Err(entry.msg), st, <<>>)
     ELSE LET serialized == to_string_stt(config)
              w == set_password(st, entry.val, serialized, sf)
          IN Outcome(w.result, w.store, w.calls)

\* a load that reports every failed read as an empty slot
secure_load_stt_config_ErrAsNone(st, ef, sf) ==
  LET entry == stt_keyring_entry(ef)
  IN IF entry.tag = "Err" THEN Outcome(Err(entry.msg), st, <<>>)
     ELSE LET g == get_password(st, entry.val, sf)
          IN IF g.result.tag = "Ok"
             THEN LET parsed == from_str_stt(g.result.val)
                  IN IF parsed.tag = "Err"
                     THEN Outcome(Err(parsed.msg), st, g.calls)
                     ELSE Outcome(Ok(Some(parsed.val)), st, g.calls)
             ELSE Outcome(Ok(None), st, g.calls)

\* pub fn secure_load_stt_config()
secure_load_stt_config(st, ef, sf) ==
  LET entry == stt_keyring_entry(ef)
  IN IF entry.tag = "Err" THEN Outcome(Err(entry.msg), st, <<>>)
     ELSE LET g == get_password(st, entry.val, sf)
          IN IF g.result.tag = "Ok"
             THEN LET parsed == from_str_stt(g.result.val)
                  IN IF parsed.tag = "Err"
                     THEN Outcome(Err(parsed.msg), st, g.calls)
                     ELSE Outcome(Ok(Some(parsed.val)), st, g.calls)
             ELSE IF g.result.msg = "NoEntry"
             THEN Outcome(Ok(None), st, g.calls)
             ELSE Outcome(Err(g.result.msg), st, g.calls)

\* a clear that swallows every failure of the delete
secure_clear_stt_config_Swallow(st, ef, sf) ==
  LET entry == stt_keyring_entry(ef)
  IN IF entry.tag = "Err" THEN Outcome(Err(entry.msg), st, <<>>)
     ELSE LET d == delete_password(st, entry.val, sf)
          IN Outcome(Ok(<<>>), d.store, d.calls)

\* pub fn secure_clear_stt_config()
secure_clear_stt_config(st, ef, sf) ==
  LET entry == stt_keyring_entry(ef)
  IN IF entry.tag = "Err" THEN Outcome(Err(entry.msg), st, <<>>)
     ELSE LET d == delete_password(st, entry.val, sf)
          IN IF d.result.tag = "Ok" \/ d.result.msg = "NoEntry"
             THEN Outcome(Ok(<<>>), d.store, d.calls)
             ELSE Outcome(Err(d.result.msg), d.store, d.calls)

----------------------------------------------------------------------------
(* State machine: the host application invokes the commands one at a time *)

Slots == {ACCOUNT_NAME, STT_ACCOUNT_NAME}

\* before: what the slot's address held when the command was invoked
Invocation(op, slot, ef, out) ==
  [op |-> op, slot |-> slot, before |-> store[Addr(slot)], entry |-> ef,
   calls |-> out.calls, result |-> out.result]

\* the history variables after an invocation of op on slot
History(op, slot, arg, result) ==
  /\ lastMut' =
       IF op \in {"save", "clear"} /\ result.tag = "Ok"
       THEN [lastMut EXCEPT ![slot] = [kind |-> op, rec |-> arg]]
       ELSE lastMut
  /\ sinceSave' =
       IF op = "save" /\ result.tag = "Ok"
       THEN [sinceSave EXCEPT ![slot] = arg]
       ELSE IF op \in {"save", "clear"}
       THEN [sinceSave EXCEPT ![slot] = <<>>]
       ELSE sinceSave

Apply(op, slot, arg, ef, out) ==
  /\ store' = out.store
  /\ lastOp' = Invocation(op, slot, ef, out)
  /\ History(op, slot, arg, out.result)
  /\ UNCHANGED inflight

Init ==
  /\ store = [a \in Addresses |-> <<>>]
  /\ lastOp = [op |-> "init", slot |-> "", before |-> <<>>, entry |-> "ok",
               calls |-> <<>>, result |-> Ok(<<>>)]
  /\ lastMut = [s \in Slots |-> [kind |-> "never", rec |-> <<>>]]
  /\ sinceSave = [s \in Slots |-> <<>>]
  /\ inflight = EmptyBag

SaveApi ==
  \E config \in SecureApiConfig, env \in Envs :
    Apply("save", ACCOUNT_NAME, <<config>>, env.ef,
          secure_save_api_config(store, config, env.ef, env.sf))

LoadApi ==
  \E env \in Envs :
    Apply("load", ACCOUNT_NAME, <<>>, env.ef,
          secure_load_api_config(store, env.ef, env.sf))

ClearApi ==
  \E env \in Envs :
    Apply("clear", ACCOUNT_NAME, <<>>, env.ef,
          secure_clear_api_config(store, env.ef, env.sf))

SaveStt ==
  \E config \in SecureSttConfig, env \in Envs :
    Apply("save", STT_ACCOUNT_NAME, <<config>>, env.ef,
          secure_save_stt_config(store, config, env.ef, env.sf))

LoadStt ==
  \E env \in Envs :
    Apply("load", STT_ACCOUNT_NAME, <<>>, env.ef,
          secure_load_stt_config(store, env.ef, env.sf))

ClearStt ==
  \E env \in Envs :
    Apply("clear", STT_ACCOUNT_NAME, <<>>, env.ef,
          secure_clear_stt_config(store, env.ef, env.sf))

Next ==
  \/ SaveApi
  \/ LoadApi
  \/ ClearApi
  \/ SaveStt
  \/ LoadStt
  \/ ClearStt

Spec == Init /\ [][Next]_vars

----------------------------------------------------------------------------
(* The same machine beside another process that rewrites the stored bytes *)

PA == Member("provider", JStr("openai"))
KA == Member("api_key", JStr("sk-1"))

\* stored content that no save of this layer writes
ForeignDocs ==
  { JBad,
    JScalar,
    JObj(<<PA>>),
    JObj(<<KA>>),
    JObj(<<Member("provider", JNum), KA>>),
    JObj(<<PA, KA, Member("base_url", JNum)>>),
    JObj(<<PA, KA, Member("language", JNum)>>),
    JObj(<<PA, KA, Member("base_url", JNull)>>),
    JObj(<<PA, KA, Member("extra", JStr("x"))>>),
    JObj(<<PA, PA, KA>>),
    JArr(<<JStr("openai"), JStr("sk-1"), JNull>>) }

\* another process replaces the bytes stored at a slot's address
Tamper ==
  \E slot \in Slots, doc \in ForeignDocs :
    /\ store' = [store EXCEPT ![Addr(slot)] = <<doc>>]
    /\ lastOp' = [op |-> "tamper", slot |-> slot,
                  before |-> <<>>, entry |-> "ok", calls |-> <<>>, result |-> Ok(<<>>)]
    /\ lastMut' = [lastMut EXCEPT ![slot] = [kind |-> "tamper", rec |-> <<>>]]
    /\ sinceSave' = [sinceSave EXCEPT ![slot] = <<>>]
    /\ UNCHANGED inflight

NextExt ==
  \/ Next
  \/ Tamper

SpecExt == Init /\ [][NextExt]_vars

----------------------------------------------------------------------------
(* Callers that race on the api_config slot.  A command is local work up   *)
(* to its one store call, the store call, and local work after it; the OS  *)
(* store serves the store calls of racing commands one at a time.  An      *)
(* invocation starts, then makes its store call on the store as it is at   *)
(* that moment, then returns what it computed from the call's answer.      *)

\* the records racing saves are given
RaceConfigs ==
  {c \in SecureApiConfig : c.api_key = "sk-1" /\ c.base_url # Some("")}

\* an invocation that has started: its store call is still to come
Started(op, arg) ==
  [pc |-> "call", op |-> op, arg |-> arg, entry |-> "ok", calls |-> <<>>,
   result |-> Ok(<<>>), lin |-> <<>>]

\* an invocation past its store call: what it will return, and lin, the
\* record of the last save that had reached the store when it called
Called(op, ef, out, lin) ==
  [pc |-> "ret", op |-> op, arg |-> <<>>, entry |-> ef, calls |-> out.calls,
   result |-> out.result, lin |-> lin]

\* the command of an invocation, run on store st
CommandOf(i, st, ef, sf) ==
  IF i.op = "save" THEN secure_save_api_config(st, i.arg[1], ef, sf)
  ELSE IF i.op = "load" THEN secure_load_api_config(st, ef, sf)
  ELSE secure_clear_api_config(st, ef, sf)

\* what the last save or clear to reach the store left: <<R>> or <<>>
LastSaved(slot) ==
  IF lastMut[slot].kind = "save" THEN lastMut[slot].rec ELSE <<>>

\* the host invokes a command while others are still running
Start ==
  /\ BagCardinality(inflight) < MaxInflight
  /\ \E op \in {"save", "load", "clear"} :
       \E arg \in (IF op = "save" THEN {<<c>> : c \in RaceConfigs}
                   ELSE {<<>>}) :
         inflight' = inflight (+) SetToBag({Started(op, arg)})
  /\ UNCHANGED <<store, lastOp, lastMut, sinceSave>>

\* an invocation resolves its entry and makes its one store call
StoreCall ==
  \E i \in BagToSet(inflight), env \in Envs :
    /\ i.pc = "call"
    /\ LET out == CommandOf(i, store, env.ef, env.sf)
       IN /\ store' = out.store
          /\ History(i.op, ACCOUNT_NAME, i.arg, out.result)
          /\ inflight' =
               (inflight (-) SetToBag({i}))
               (+) SetToBag({Called(i.op, env.ef, out,
                                    LastSaved(ACCOUNT_NAME))})
    /\ UNCHANGED lastOp

\* an invocation hands its result back to the caller
Return ==
  \E i \in BagToSet(inflight) :
    /\ i.pc = "ret"
    /\ inflight' = inflight (-) SetToBag({i})
    /\ lastOp' = [op |-> i.op, slot |-> ACCOUNT_NAME, before |-> <<>>,
                  entry |-> i.entry, calls |-> i.calls, result |-> i.result]
    /\ UNCHANGED <<store, lastMut, sinceSave>>

NextConc ==
  \/ Start
  \/ StoreCall
  \/ Return

SpecConc == Init /\ [][NextConc]_vars

----------------------------------------------------------------------------
(* Vocabulary of the properties *)

\* the messages serde_json's errors flatten to
SchemaMsgs ==
  {"syntax error", "invalid type", "missing field", "duplicate field",
   "invalid length", "trailing characters"}

IsCommand(o) == o.op \in {"save", "load", "clear"}

\* the store was reachable: the address resolved and the one store call
\* answered with the content or with "no entry"
Reachable(o) ==
  /\ o.entry = "ok"
  /\ Len(o.calls) = 1
  /\ o.calls[1].outcome \in {"ok", "NoEntry"}

\* the address did not resolve, or the store call failed otherwise than by
\* "no entry"
Unreachable(o) ==
  \/ o.entry # "ok"
  \/ \E i \in 1..Len(o.calls) : o.calls[i].outcome \notin {"ok", "NoEntry"}

\* load of a slot on store st in a fault-free environment
LoadOf(slot, st) ==
  IF slot = ACCOUNT_NAME THEN secure_load_api_config(st, "ok", "ok").result
  ELSE secure_load_stt_config(st, "ok", "ok").result

VariantOf(slot) ==
  IF slot = ACCOUNT_NAME THEN SecureApiConfig ELSE SecureSttConfig

FieldsOf(slot) == IF slot = ACCOUNT_NAME THEN ApiFields ELSE SttFields

OptionalNames(slot) ==
  {FieldsOf(slot)[i].name :
     i \in {j \in 1..Len(FieldsOf(slot)) : FieldsOf(slot)[j].optional}}

HasKey(doc, k) == \E i \in 1..Len(doc.m) : doc.m[i].k = k

----------------------------------------------------------------------------
\* C1: round trip.  A load that succeeds while the last save or clear
\* attempt on its slot was a successful save of R returns Some(R), equal
\* field by field, absent fields absent and present fields present.
RoundTrip ==
  (lastOp.op = "load" /\ lastOp.result.tag = "Ok"
     /\ sinceSave[lastOp.slot] # <<>>)
  => lastOp.result.val = sinceSave[lastOp.slot]

\* a load returned a saved API record whose base_url is Some("")
RoundTripWitness ==
  /\ lastOp.op = "load"
  /\ lastOp.slot = ACCOUNT_NAME
  /\ lastOp.result.tag = "Ok"
  /\ sinceSave[ACCOUNT_NAME] # <<>>
  /\ sinceSave[ACCOUNT_NAME][1].base_url = Some("")
  /\ lastOp.result.val # <<>>
  /\ lastOp.result.val[1].base_url = Some("")

\* C2: absence is not an error.  A load of a slot never saved to, or whose
\* last successful mutation was a clear, returns Ok(None) whenever the
\* store is reachable.
AbsenceNotError ==
  (lastOp.op = "load" /\ Reachable(lastOp)
     /\ lastMut[lastOp.slot].kind \in {"never", "clear"})
  => lastOp.result = Ok(None)

\* a load of a cleared slot returned Ok(None)
AbsenceWitness ==
  /\ lastOp.op = "load"
  /\ Reachable(lastOp)
  /\ lastMut[lastOp.slot].kind = "clear"
  /\ lastOp.result = Ok(None)

\* C3: idempotent clear.  A clear that finds the store reachable and the
\* slot empty, in particular one that directly follows a successful clear
\* of the same slot, succeeds and leaves the slot empty.
IdempotentClear ==
  [][ (/\ lastOp'.op = "clear"
       /\ Reachable(lastOp')
       /\ \/ store[Addr(lastOp'.slot)] = <<>>
          \/ (lastOp.op = "clear" /\ lastOp.slot = lastOp'.slot
                /\ lastOp.result.tag = "Ok"))
      => (/\ lastOp'.result = Ok(<<>>)
          /\ store'[Addr(lastOp'.slot)] = <<>>) ]_vars

\* a clear met "no entry" on an empty slot, and succeeded
IdempotentClearWitness ==
  /\ lastOp.op = "clear"
  /\ lastOp.before = <<>>
  /\ Len(lastOp.calls) = 1
  /\ lastOp.calls[1].outcome = "NoEntry"
  /\ lastOp.result.tag = "Ok"
  /\ store[Addr(lastOp.slot)] = <<>>

\* C4: overwrite.  After a successful save of R2 onto a slot that already
\* held a value, the slot holds the serialized R2 and nothing else, and a
\* load returns Some(R2): nothing of the earlier value remains.
Overwrite ==
  (lastOp.op = "save" /\ lastOp.result.tag = "Ok" /\ lastOp.before # <<>>)
  => /\ Len(store[Addr(lastOp.slot)]) = 1
     /\ LoadOf(lastOp.slot, store) = Ok(lastMut[lastOp.slot].rec)

\* a record without base_url was saved over one with base_url
OverwriteWitness ==
  /\ lastOp.op = "save"
  /\ lastOp.slot = ACCOUNT_NAME
  /\ lastOp.result.tag = "Ok"
  /\ lastOp.before # <<>>
  /\ HasKey(lastOp.before[1], "base_url")
  /\ lastMut[ACCOUNT_NAME].rec[1].base_url = None
  /\ LoadOf(ACCOUNT_NAME, store).val[1].base_url = None

\* C5: slot isolation.  A save, load or clear on one slot leaves what the
\* other slot's address holds, and so the result of loading the other
\* slot, unchanged.
SlotIsolation ==
  [][ \A s2 \in Slots :
        (IsCommand(lastOp') /\ lastOp'.slot # s2)
        => /\ store'[Addr(s2)] = store[Addr(s2)]
           /\ LoadOf(s2, store') = LoadOf(s2, store) ]_vars

\* a save on the STT slot succeeded while the API slot held a saved
\* record, which is still there
SlotIsolationWitness ==
  /\ IsCommand(lastOp)
  /\ lastOp.slot = STT_ACCOUNT_NAME
  /\ lastOp.op = "save"
  /\ lastOp.result.tag = "Ok"
  /\ lastMut[ACCOUNT_NAME].kind = "save"
  /\ store[Addr(ACCOUNT_NAME)] =
       <<to_string_api(lastMut[ACCOUNT_NAME].rec[1])>>

----------------------------------------------------------------------------
\* stored content that is malformed for a struct: text that is not JSON or
\* not an object or array, or an object that lacks a required field or
\* gives a field a value its Rust type does not take (String takes a JSON
\* string, Option<String> a JSON string or null)
Malformed(fields, doc) ==
  \/ doc.t \in {"bad", "scalar"}
  \/ /\ doc.t = "obj"
     /\ \/ \E i \in 1..Len(fields) :
             ~fields[i].optional /\ ~HasKey(doc, fields[i].name)
        \/ \E i \in 1..Len(doc.m), j \in 1..Len(fields) :
             /\ doc.m[i].k = fields[j].name
             /\ doc.m[i].v.t # "str"
             /\ ~(fields[j].optional /\ doc.m[i].v.t = "null")

\* C6: corruption surfaces as an error.  A load that reads content
\* malformed for its slot's struct returns a serde error: not Ok(None) and
\* not Ok(Some(record)).
CorruptionIsError ==
  (lastOp.op = "load" /\ Reachable(lastOp) /\ lastOp.before # <<>>
     /\ Malformed(FieldsOf(lastOp.slot), lastOp.before[1]))
  => (lastOp.result.tag = "Err" /\ lastOp.result.msg \in SchemaMsgs)

\* a load read an object without api_key and returned "missing field"
CorruptionWitness ==
  /\ lastOp.op = "load"
  /\ Reachable(lastOp)
  /\ lastOp.before = <<JObj(<<PA>>)>>
  /\ lastOp.result = Err("missing field")

\* C7: tri-state load.  A load whose address does not resolve or whose
\* read fails otherwise than by "no entry" returns an error; Ok(None) is
\* returned only when the store reported "no entry".
TriStateLoad ==
  lastOp.op = "load"
  => /\ Unreachable(lastOp) => lastOp.result.tag = "Err"
     /\ lastOp.result = Ok(None)
          => (/\ lastOp.entry = "ok"
              /\ lastOp.calls = <<Call("get_password", "NoEntry")>>)

\* a load of a slot that holds a record failed on the store and returned
\* the store's error
TriStateWitness ==
  /\ lastOp.op = "load"
  /\ lastOp.before # <<>>
  /\ lastOp.calls = <<Call("get_password", "NoStorageAccess")>>
  /\ lastOp.result = Err("NoStorageAccess")

\* C8: clear.  A clear returns an error exactly when its address does not
\* resolve or the delete fails otherwise than by "no entry"; and while a
\* slot's last successful mutation is a clear the slot holds no value and
\* loads as absent.
ClearExact ==
  /\ lastOp.op = "clear"
       => (lastOp.result.tag = "Err" <=> Unreachable(lastOp))
  /\ lastOp.op = "clear" /\ lastOp.result.tag = "Ok"
       => store[Addr(lastOp.slot)] = <<>>
  /\ \A s \in Slots :
       lastMut[s].kind = "clear"
       => (store[Addr(s)] = <<>> /\ LoadOf(s, store) = Ok(None))

\* a failed save followed a successful clear of a slot that held a record
ClearWitness ==
  /\ lastOp.op = "save"
  /\ lastOp.result.tag = "Err"
  /\ lastMut[lastOp.slot].kind = "clear"
  /\ store[Addr(lastOp.slot)] = <<>>

\* C9: serialization omits absent optional fields.  The value a successful
\* save wrote has a key for an optional field exactly when the record has
\* the field, and the key's value is then the field's string: no null, no
\* empty string standing for an absent field.
SerializationOmitsAbsent ==
  (lastOp.op = "save" /\ lastOp.result.tag = "Ok")
  => /\ store[Addr(lastOp.slot)] # <<>>
     /\ LET doc == store[Addr(lastOp.slot)][1]
            R == lastMut[lastOp.slot].rec[1]
        IN /\ doc.t = "obj"
           /\ \A f \in OptionalNames(lastOp.slot) :
                /\ HasKey(doc, f) <=> R[f] # None
                /\ \A i \in 1..Len(doc.m) :
                     doc.m[i].k = f => doc.m[i].v = JStr(R[f][1])

\* an STT record with no language and the model "" was written with a
\* model key and no language key
SerializationWitness ==
  /\ lastOp.op = "save"
  /\ lastOp.slot = STT_ACCOUNT_NAME
  /\ lastOp.result.tag = "Ok"
  /\ lastMut[STT_ACCOUNT_NAME].rec[1].language = None
  /\ lastMut[STT_ACCOUNT_NAME].rec[1].model = Some("")
  /\ HasKey(store[Addr(STT_ACCOUNT_NAME)][1], "model")
  /\ ~HasKey(store[Addr(STT_ACCOUNT_NAME)][1], "language")

\* the documents serde_json::to_string writes for a slot's struct
Serialized(slot) ==
  IF slot = ACCOUNT_NAME THEN {to_string_api(R) : R \in SecureApiConfig}
  ELSE {to_string_stt(R) : R \in SecureSttConfig}

\* C10: stored-value invariant.  Whatever saves, loads and clears ran on an
\* initially empty store, failed ones included, a slot's stored value is
\* the serialized form of one record of the slot's struct, and no load
\* returns a serde error.
StoredValueInvariant ==
  /\ \A s \in Slots :
       store[Addr(s)] # <<>>
       => /\ store[Addr(s)][1] \in Serialized(s)
          /\ LoadOf(s, store).tag = "Ok"
          /\ LoadOf(s, store).val # <<>>
          /\ LoadOf(s, store).val[1] \in VariantOf(s)
  /\ lastOp.op = "load" => lastOp.result.msg \notin SchemaMsgs

\* both slots hold a record after a failed command
StoredValueWitness ==
  /\ IsCommand(lastOp)
  /\ lastOp.result.tag = "Err"
  /\ \A s \in Slots : store[Addr(s)] # <<>>

----------------------------------------------------------------------------
\* C11: no silent coercion on load.  A load returns Ok(Some(R)) only when
\* the content it read is the serialized form of R for its slot's struct;
\* a null marker for an optional field, an unknown extra key, the array
\* form or a record of the other struct is never accepted as a record.
NoSilentCoercion ==
  (lastOp.op = "load" /\ lastOp.result.tag = "Ok" /\ lastOp.result.val # <<>>)
  => /\ lastOp.before # <<>>
     /\ lastOp.before[1] \in Serialized(lastOp.slot)
     /\ lastOp.before[1] =
          (IF lastOp.slot = ACCOUNT_NAME
           THEN to_string_api(lastOp.result.val[1])
           ELSE to_string_stt(lastOp.result.val[1]))

----------------------------------------------------------------------------
\* the one store call each kind of command makes
StoreCallOf(op) ==
  IF op = "save" THEN "set_password"
  ELSE IF op = "load" THEN "get_password"
  ELSE "delete_password"

\* C12: single shot, no retry.  Every save, load or clear issues at most
\* one store call, of its own kind; when the address does not resolve it
\* issues none and returns the error; when the call fails otherwise than
\* by "no entry" it returns that error and issues no further call.
SingleShot ==
  IsCommand(lastOp)
  => /\ Len(lastOp.calls) <= 1
     /\ \A i \in 1..Len(lastOp.calls) :
          lastOp.calls[i].call = StoreCallOf(lastOp.op)
     /\ lastOp.entry # "ok"
          => (lastOp.calls = <<>> /\ lastOp.result = Err(lastOp.entry))
     /\ \A i \in 1..Len(lastOp.calls) :
          lastOp.calls[i].outcome \notin {"ok", "NoEntry"}
          => lastOp.result = Err(lastOp.calls[i].outcome)

\* a save whose one write the store rejected returned the store's error
SingleShotWitness ==
  /\ lastOp.op = "save"
  /\ lastOp.calls = <<Call("set_password", "NoStorageAccess")>>
  /\ lastOp.result = Err("NoStorageAccess")

\* C14: a failed save leaves the slot unchanged.  After a save that
\* returned an error the slot holds what it held before the call, so it
\* loads as it did before; and a save whose address did not resolve issued
\* no write.
FailedSaveUnchanged ==
  (lastOp.op = "save" /\ lastOp.result.tag = "Err")
  => /\ store[Addr(lastOp.slot)] = lastOp.before
     /\ lastOp.entry # "ok" => lastOp.calls = <<>>
     /\ lastMut[lastOp.slot].kind = "save"
          => LoadOf(lastOp.slot, store) = Ok(lastMut[lastOp.slot].rec)
     /\ lastMut[lastOp.slot].kind \in {"never", "clear"}
          => LoadOf(lastOp.slot, store) = Ok(None)

\* the store rejected a save onto a slot that held a record
FailedSaveWitness ==
  /\ lastOp.op = "save"
  /\ lastOp.calls = <<Call("set_password", "NoStorageAccess")>>
  /\ lastOp.result.tag = "Err"
  /\ lastOp.before # <<>>
  /\ store[Addr(lastOp.slot)] = lastOp.before

\* C15: load is read-only.  No load, whatever it returns, changes what any
\* slot holds; and a load that directly follows a load of the same slot in
\* the same environment returns the same result.
LoadReadOnly ==
  [][ lastOp'.op = "load"
      => /\ store' = store
         /\ (lastOp.op = "load" /\ lastOp.slot = lastOp'.slot
               /\ lastOp.entry = lastOp'.entry /\ lastOp.calls = lastOp'.calls)
            => lastOp'.result = lastOp.result ]_vars

\* a load returned a serde error on content another process had written,
\* and the content is still there
LoadReadOnlyWitness ==
  /\ lastOp.op = "load"
  /\ lastOp.result.tag = "Err"
  /\ lastOp.result.msg \in SchemaMsgs
  /\ lastOp.before # <<>>
  /\ store[Addr(lastOp.slot)] = lastOp.before

----------------------------------------------------------------------------
\* C13: racing operations on one slot.  However saves, clears and loads of
\* the slot interleave, the slot holds nothing or the serialized record of
\* the save that reached the store last, and a racing load returns absent
\* or exactly the record of the save that had reached the store last when
\* it read: a whole record given to one save, never a mix and never a
\* serde error.
RaceLinearizable ==
  /\ store[Addr(ACCOUNT_NAME)] =
       (IF LastSaved(ACCOUNT_NAME) = <<>> THEN <<>>
        ELSE <<to_string_api(LastSaved(ACCOUNT_NAME)[1])>>)
  /\ LastSaved(ACCOUNT_NAME) # <<>>
       => LastSaved(ACCOUNT_NAME)[1] \in RaceConfigs
  /\ \A i \in BagToSet(inflight) :
       (i.pc = "ret" /\ i.op = "load")
       => /\ i.result.msg \notin SchemaMsgs
          /\ i.result.tag = "Ok" => i.result.val = i.lin
          /\ i.result.val # <<>> => i.result.val[1] \in RaceConfigs
  /\ (lastOp.op = "load" /\ lastOp.slot = ACCOUNT_NAME)
       => /\ lastOp.result.msg \notin SchemaMsgs
          /\ lastOp.result.val # <<>>
               => lastOp.result.val[1] \in RaceConfigs

\* a load has read one record and not yet returned it, a racing save has
\* since replaced that record, and a racing clear is still to call
RaceWitness ==
  /\ BagCardinality(inflight) = 2
  /\ \E i \in BagToSet(inflight) :
       /\ i.pc = "ret"
       /\ i.op = "load"
       /\ i.result.tag = "Ok"
       /\ i.result.val # <<>>
       /\ store[Addr(ACCOUNT_NAME)] # <<>>
       /\ store[Addr(ACCOUNT_NAME)] # <<to_string_api(i.result.val[1])>>
  /\ \E j \in BagToSet(inflight) : j.pc = "call" /\ j.op = "clear"

====
